---- MODULE Spec2Model ----
(***************************************************************************)
(* Model of the GSPP user-guides search repository:                        *)
(*   src/app.py                 extract_citations, main (Streamlit chat)   *)
(*   src/setup.py               main, create_store_and_upload_files        *)
(*   src/file_search_guides.py  interactive_mode (REPL)                    *)
(*                                                                         *)
(* Python values are modelled as follows.  A string attribute is a TLA+    *)
(* string; a text excerpt is a sequence of character codes so that the     *)
(* slice [:100] is computed; an attribute that does not exist on an object *)
(* is Absent / AbsentT, an attribute that exists and holds None is NoneV / *)
(* NoneT.  Lists and nested objects carry a "kind" field ("absent",        *)
(* "none", "list" / "obj").                                                *)
(***************************************************************************)
EXTENDS Integers, Sequences, FiniteSets, TLC

\* ------------------------------------------------------------------ bounds
MaxChunks == 2
MaxSupports == 2
MaxQuestions == 3
MaxPolls == 2

\* ------------------------------------------------------- program constants
KeyPrefixLen == 100

\* ------------------------------------------------------------ Python values
Absent == "<absent>"
NoneV == "<None>"
AbsentT == <<-1>>
NoneT == <<-2>>
EmptyT == <<>>

Truthy(v) == v \notin {Absent, NoneV, ""}
TruthyT(t) == t \notin {AbsentT, NoneT, EmptyT}
GetAttr(v, default) == IF v = Absent THEN default ELSE v
GetAttrT(t, default) == IF t = AbsentT THEN default ELSE t
PyOr(a, b) == IF Truthy(a) THEN a ELSE b
PyOrT(a, b) == IF TruthyT(a) THEN a ELSE b
DictGet(v, default) == IF v = Absent THEN default ELSE v
Min(a, b) == IF a < b THEN a ELSE b
SliceTo(t, n) == SubSeq(t, 1, Min(Len(t), n))

\* A list-valued attribute: absent, None, or a list.
AbsentList == [kind |-> "absent", items |-> <<>>]
NoneList == [kind |-> "none", items |-> <<>>]
ListOf(s) == [kind |-> "list", items |-> s]
TruthyList(l) == l.kind = "list" /\ Len(l.items) > 0
GetAttrList(l, default) == IF l.kind = "absent" THEN default ELSE l
PyOrList(a, b) == IF TruthyList(a) THEN a ELSE b

\* -------------------------------------------------- extract_citations input
Pad(n) == [i \in 1..n |-> 0]
TextX == <<1>>
TextY == <<2>>
TextCreate == <<3, 4, 5>>
LongA == Pad(KeyPrefixLen) \o <<1>>
LongB == Pad(KeyPrefixLen) \o <<2>>

NoCtx == [kind |-> "absent", title |-> Absent, displayName |-> Absent, uri |-> Absent]
NoneCtx == [kind |-> "none", title |-> Absent, displayName |-> Absent, uri |-> Absent]
Ctx(t, d, u) == [kind |-> "obj", title |-> t, displayName |-> d, uri |-> u]
TruthyCtx(c) == c.kind = "obj"
GetAttrCtx(c, default) == IF c.kind = "absent" THEN default ELSE c
PyOrCtx(a, b) == IF TruthyCtx(a) THEN a ELSE b

Chunk(sc, cc, t, x, c) ==
    [retrieved_context |-> sc, retrievedContext |-> cc, title |-> t, text |-> x, content |-> c]

ChunkA == Chunk(Ctx("A", Absent, "u"), NoCtx, Absent, LongA, AbsentT)
ChunkA2 == Chunk(Ctx("A", Absent, Absent), NoCtx, Absent, LongB, AbsentT)
ChunkB == Chunk(NoneCtx, Ctx(NoneV, "B", Absent), Absent, EmptyT, TextY)
ChunkNoTitle == Chunk(Ctx(Absent, Absent, "u"), NoCtx, Absent, AbsentT, NoneT)
ChunkIntro == Chunk(NoCtx, NoCtx, "Intro", TextCreate, AbsentT)
ChunkBare == Chunk(NoCtx, NoCtx, Absent, AbsentT, AbsentT)

ChunkSet == {ChunkA, ChunkA2, ChunkB, ChunkNoTitle, ChunkIntro, ChunkBare}

\* The chunk-index lists a support may carry: empty, in range, repeated,
\* negative and past the end of the chunk list.
IndexLists ==
    {<<>>, <<1>>, <<1, 0>>, <<0, 1, 0>>, <<-1, 1>>, <<0, 7>>}

SeqsUpTo(S, n) == UNION {[1..k -> S] : k \in 0..n}

Support(shape, idx) ==
    IF shape = "snake"
    THEN [grounding_chunk_indices |-> ListOf(idx), groundingChunkIndices |-> AbsentList]
    ELSE [grounding_chunk_indices |-> NoneList, groundingChunkIndices |-> ListOf(idx)]

Metadata(shape, chunks, idxs, rm) ==
    LET sups == [k \in 1..Len(idxs) |-> Support(shape, idxs[k])]
    IN  IF shape = "snake"
        THEN [kind |-> "obj",
              grounding_chunks |-> ListOf(chunks), groundingChunks |-> AbsentList,
              grounding_supports |-> ListOf(sups), groundingSupports |-> AbsentList,
              retrieval_metadata |-> rm]
        ELSE [kind |-> "obj",
              grounding_chunks |-> NoneList, groundingChunks |-> ListOf(chunks),
              grounding_supports |-> AbsentList, groundingSupports |-> ListOf(sups),
              retrieval_metadata |-> rm]

NoMetadata(k) ==
    [kind |-> k,
     grounding_chunks |-> AbsentList, groundingChunks |-> AbsentList,
     grounding_supports |-> AbsentList, groundingSupports |-> AbsentList,
     retrieval_metadata |-> FALSE]

\* The snake spelling carries every chunk and support list of the bounds; the
\* camel spelling (the alternate field names) carries the short ones.
MetadataSet ==
    {NoMetadata("absent"), NoMetadata("none")} \cup
    {Metadata("snake", chunks, idxs, FALSE) :
        chunks \in SeqsUpTo(ChunkSet, MaxChunks),
        idxs \in SeqsUpTo(IndexLists, MaxSupports)} \cup
    {Metadata("camel", chunks, idxs, TRUE) :
        chunks \in SeqsUpTo(ChunkSet, 1),
        idxs \in SeqsUpTo(IndexLists, 1)}

Response(cands) == [candidates |-> cands]

ResponseSet ==
    {Response(NoneList), Response(ListOf(<<>>))} \cup
    {Response(ListOf(<<[grounding_metadata |-> m]>>)) : m \in MetadataSet}

NoResponse == Response(AbsentList)

\* ------------------------------------------------------- extract_citations
\* dir(obj) without private names: the attributes the modelled object carries.
CandidateAttrs(candidate) ==
    IF candidate.grounding_metadata.kind = "absent" THEN {} ELSE {"grounding_metadata"}

MetadataAttrs(metadata) ==
    {n \in {"grounding_chunks", "groundingChunks", "grounding_supports", "groundingSupports"} :
        metadata[n].kind # "absent"} \cup {"retrieval_metadata"}

ChunkAttrs(chunk) ==
    {n \in {"retrieved_context", "retrievedContext"} : chunk[n].kind # "absent"}
    \cup (IF chunk.title # Absent THEN {"title"} ELSE {})
    \cup {n \in {"text", "content"} : chunk[n] # AbsentT}

GroundingChunks(metadata) ==
    PyOrList(PyOrList(GetAttrList(metadata.grounding_chunks, NoneList),
                      GetAttrList(metadata.groundingChunks, NoneList)),
             ListOf(<<>>))

GroundingSupports(metadata) ==
    PyOrList(PyOrList(GetAttrList(metadata.grounding_supports, NoneList),
                      GetAttrList(metadata.groundingSupports, NoneList)),
             ListOf(<<>>))

ResolveContext(chunk) ==
    PyOrCtx(GetAttrCtx(chunk.retrieved_context, NoneCtx),
            GetAttrCtx(chunk.retrievedContext, NoneCtx))

ResolveTitleAlwaysUnknown(ctx) == "Unknown"

ResolveTitle(ctx) ==
    PyOr(GetAttr(ctx.title, ""), GetAttr(ctx.displayName, "Unknown Source"))

ResolveText(chunk) ==
    PyOrT(GetAttrT(chunk.text, EmptyT), GetAttrT(chunk.content, EmptyT))

\* One entry of chunk_info; a key the code does not set is Absent.
ChunkInfoOf(i, chunk) ==
    LET ctx == ResolveContext(chunk)
    IN  [index |-> i,
         title |-> IF TruthyCtx(ctx) THEN ResolveTitle(ctx) ELSE Absent,
         uri |-> IF TruthyCtx(ctx) THEN GetAttr(ctx.uri, "") ELSE Absent,
         text |-> ResolveText(chunk)]

\* The dict chunk_info, keyed by the 0-based position of the chunk.
BuildChunkInfo(chunks) ==
    [i \in 0..(Len(chunks) - 1) |-> ChunkInfoOf(i, chunks[i + 1])]

ChunkAttrsDebug(chunks) ==
    [k \in {"chunk_" \o ToString(i) \o "_attrs" : i \in 0..(Len(chunks) - 1)} |->
        LET i == CHOOSE j \in 0..(Len(chunks) - 1) : k = "chunk_" \o ToString(j) \o "_attrs"
        IN  ChunkAttrs(chunks[i + 1])]

UseChunksDirectlyIgnoringSupports(grounding_chunks, grounding_supports) ==
    TruthyList(grounding_chunks)

UseChunksDirectly(grounding_chunks, grounding_supports) ==
    TruthyList(grounding_chunks) /\ ~TruthyList(grounding_supports)

Citable(info) == TruthyT(info.text) \/ Truthy(info.title)

DirectCitationFromChunkTitle(info, chunk) ==
    [title |-> DictGet(chunk.title, "Source Document"),
     source_text |-> info.text,
     uri |-> DictGet(info.uri, "")]

DirectCitation(info, chunk) ==
    [title |-> DictGet(info.title, "Source Document"),
     source_text |-> info.text,
     uri |-> DictGet(info.uri, "")]

SupportCitation(info) ==
    [title |-> DictGet(info.title, "Unknown"),
     source_text |-> info.text,
     uri |-> DictGet(info.uri, "")]

\* for i, info in chunk_info.items(): ... (insertion order 0, 1, ...)
RECURSIVE ChunkLoop(_, _, _, _)
ChunkLoop(chunk_info, chunks, i, citations) ==
    IF i \notin DOMAIN chunk_info THEN citations
    ELSE ChunkLoop(chunk_info, chunks, i + 1,
                   IF Citable(chunk_info[i])
                   THEN Append(citations, DirectCitation(chunk_info[i], chunks[i + 1]))
                   ELSE citations)

ChunkIndices(support) ==
    PyOrList(PyOrList(GetAttrList(support.grounding_chunk_indices, ListOf(<<>>)),
                      GetAttrList(support.groundingChunkIndices, ListOf(<<>>))),
             ListOf(<<>>)).items

IndexBelowLength(idx, chunk_info) == idx < Cardinality(DOMAIN chunk_info)

IndexKnown(idx, chunk_info) == idx \in DOMAIN chunk_info

\* One pass over the indices of one support.  acc is [citations, raised]:
\* chunk_info[idx] on a key the dict lacks raises KeyError.
RECURSIVE IndexLoop(_, _, _, _)
IndexLoop(chunk_info, indices, k, acc) ==
    IF k > Len(indices) \/ acc.raised # "" THEN acc
    ELSE LET idx == indices[k]
         IN  IF IndexKnown(idx, chunk_info)
             THEN IF idx \in DOMAIN chunk_info
                  THEN IndexLoop(chunk_info, indices, k + 1,
                           [acc EXCEPT !.citations = Append(@, SupportCitation(chunk_info[idx]))])
                  ELSE [acc EXCEPT !.raised = "KeyError"]
             ELSE IndexLoop(chunk_info, indices, k + 1, acc)

RECURSIVE SupportLoop(_, _, _, _)
SupportLoop(chunk_info, supports, s, acc) ==
    IF s > Len(supports) \/ acc.raised # "" THEN acc
    ELSE SupportLoop(chunk_info, supports, s + 1,
                     IndexLoop(chunk_info, ChunkIndices(supports[s]), 1, acc))

FullTextKey(c) ==
    <<c.title, IF TruthyT(c.source_text) THEN c.source_text ELSE EmptyT>>

DedupKey(c) ==
    <<c.title, IF TruthyT(c.source_text) THEN SliceTo(c.source_text, KeyPrefixLen) ELSE EmptyT>>

KeepPrepended(unique_citations, c) == <<c>> \o unique_citations

KeepCitation(unique_citations, c) == Append(unique_citations, c)

RememberLastOnly(seen, key) == {key}

Remember(seen, key) == seen \cup {key}

RECURSIVE DedupLoop(_, _, _, _)
DedupLoop(citations, k, seen, unique_citations) ==
    IF k > Len(citations) THEN unique_citations
    ELSE LET c == citations[k]
             key == DedupKey(c)
         IN  IF key \notin seen
             THEN DedupLoop(citations, k + 1, Remember(seen, key), KeepCitation(unique_citations, c))
             ELSE DedupLoop(citations, k + 1, seen, unique_citations)

Deduplicate(citations) == DedupLoop(citations, 1, {}, <<>>)

\* The candidate list of the branch that runs, before deduplication.
Candidates(grounding_chunks, grounding_supports) ==
    LET chunk_info == BuildChunkInfo(grounding_chunks.items)
        start == [citations |-> <<>>, raised |-> ""]
    IN  IF UseChunksDirectly(grounding_chunks, grounding_supports)
        THEN [start EXCEPT !.citations = ChunkLoop(chunk_info, grounding_chunks.items, 0, <<>>)]
        ELSE SupportLoop(chunk_info, grounding_supports.items, 1, start)

NoCandidatesDebugSilent == << >>

NoCandidatesDebug == [error |-> "No candidates in response"]

NoMetadataDebug(candidate) ==
    [error |-> "No grounding_metadata in candidate",
     candidate_attrs |-> CandidateAttrs(candidate)]

MetadataDebug(metadata, grounding_chunks, grounding_supports) ==
    [metadata_attrs |-> MetadataAttrs(metadata),
     grounding_chunks_count |->
         IF TruthyList(grounding_chunks) THEN Len(grounding_chunks.items) ELSE 0,
     grounding_supports_count |->
         IF TruthyList(grounding_supports) THEN Len(grounding_supports.items) ELSE 0]
    @@ (IF metadata.retrieval_metadata
        THEN [has_retrieval_metadata |-> TRUE,
              retrieval_metadata_attrs |-> {}]
        ELSE << >>)
    @@ ChunkAttrsDebug(grounding_chunks.items)

Returned(citations, debug_info) ==
    [citations |-> citations, debug_info |-> debug_info, raised |-> ""]

Raised(exc) == [citations |-> <<>>, debug_info |-> << >>, raised |-> exc]

extract_citations(resp) ==
    IF ~TruthyList(resp.candidates) THEN Returned(<<>>, NoCandidatesDebug)
    ELSE LET candidate == resp.candidates.items[1]
             metadata == candidate.grounding_metadata
         IN  IF metadata.kind # "obj" THEN Returned(<<>>, NoMetadataDebug(candidate))
             ELSE LET grounding_chunks == GroundingChunks(metadata)
                      grounding_supports == GroundingSupports(metadata)
                      cand == Candidates(grounding_chunks, grounding_supports)
                  IN  IF cand.raised # "" THEN Raised(cand.raised)
                      ELSE Returned(Deduplicate(cand.citations),
                                    MetadataDebug(metadata, grounding_chunks,
                                                  grounding_supports))

\* ------------------------------------------------------------------- state
VARIABLES
    \* app.py, extract_citations applied to a response
    response,      \* the response the last generate call returned
    result,        \* what extract_citations returned for it
    previous,      \* what the preceding run on the same response returned
    runs,          \* how many times extract_citations ran on response
    \* setup.py and file_search_guides.py, ingestion
    script,        \* which script runs: "setup.py", "file_search_guides.py", "app.py"
    pc,            \* the statement the script is at
    file_exists,   \* os.path.exists for each entry of PDF_FILES
    api_key,       \* os.environ.get("GEMINI_API_KEY")
    stores,        \* the stores of the remote service
    list_fails,    \* whether file_search_stores.list() raises
    client,        \* the genai.Client, once built
    existing_store,\* find_existing_store's result
    calls,         \* the remote-service calls issued so far
    log,           \* what the script printed
    file_idx,      \* position of the upload loop in PDF_FILES
    operation,     \* the upload operation being polled
    polls,         \* operations.get calls for that operation
    new_store,     \* file_search_store.name
    store_name,    \* what create_store_and_upload_files returned
    config,        \* store_name in file_search_config.json (for app.py: in any of
                   \* load_config's sources), "" while there is none
    uploaded,      \* files whose upload operation reported done
    exc,           \* the exception that ended the script, if any
    \* app.py main and file_search_guides.py interactive_mode, question loop
    ui,            \* "app" (Streamlit) or "repl"
    chat_pc,       \* "idle" between questions, "ended", "crashed"
    messages,      \* st.session_state.messages
    sent,          \* the questions passed to generate_content
    service,       \* the outcome of each generate_content call
    shown          \* what the user was shown for each input handled

extractVars == <<response, result, previous, runs>>
setupVars ==
    <<script, pc, file_exists, api_key, stores, list_fails, client, existing_store, calls,
      log, file_idx, operation, polls, new_store, store_name, config, uploaded, exc>>
chatVars == <<ui, chat_pc, messages, sent, service, shown>>
vars == <<extractVars, setupVars, chatVars>>

NotRun == Returned(<<>>, << >>)

ExtractIdle ==
    /\ response = NoResponse
    /\ result = NotRun
    /\ previous = NotRun
    /\ runs = 0

\* app.py main, line 341: a new response arrives from query_guides.
QueryGuidesReturns ==
    /\ response = NoResponse
    /\ \E r \in ResponseSet : response' = r
    /\ UNCHANGED <<result, previous, runs>>
    /\ UNCHANGED <<setupVars, chatVars>>

\* app.py main, line 343: extract_citations(response); it is a pure function
\* of the response and may be applied again to the same one.
ExtractCitations ==
    /\ response # NoResponse
    /\ runs < 2
    /\ result' = extract_citations(response)
    /\ previous' = result
    /\ runs' = runs + 1
    /\ UNCHANGED response
    /\ UNCHANGED <<setupVars, chatVars>>

\* app.py main lines 345-364: the answer is rendered and the script run ends;
\* response and citations are locals, the next run starts without them.
Rendered ==
    /\ runs > 0
    /\ response' = NoResponse
    /\ result' = NotRun
    /\ previous' = NotRun
    /\ runs' = 0
    /\ UNCHANGED <<setupVars, chatVars>>

\* ------------------------------------------ setup.py / file_search_guides.py
NumFiles == 2
STORE_NAME == "GSPP-User-Guides"
OldStore == [name |-> "fileSearchStores/old", display_name |-> STORE_NAME]
OtherStore == [name |-> "fileSearchStores/other", display_name |-> "Other"]
CreatedStore == [name |-> "fileSearchStores/new", display_name |-> STORE_NAME]

Event(ev, file) == [ev |-> ev, file |-> file]
Call(op, file, store) == [op |-> op, file |-> file, store |-> store]
NoOperation == [file |-> 0, done |-> TRUE]
Logged(e) == \E k \in 1..Len(log) : log[k] = e
Called(op) == \E k \in 1..Len(calls) : calls[k].op = op

\* input(...).strip().lower() on the answers the model types.
Answers == {"y", " Y ", "n", "yes", ""}
StripLower(a) == IF a = " Y " THEN "y" ELSE a

SetupIdle ==
    /\ script = "none"
    /\ pc = "none"
    /\ file_exists = [i \in 1..NumFiles |-> TRUE]
    /\ api_key = NoneV
    /\ stores = {}
    /\ list_fails = FALSE
    /\ client = "none"
    /\ existing_store = ""
    /\ calls = <<>>
    /\ log = <<>>
    /\ file_idx = 0
    /\ operation = NoOperation
    /\ polls = 0
    /\ new_store = ""
    /\ store_name = ""
    /\ config = ""
    /\ uploaded = {}
    /\ exc = ""

SetupInit ==
    /\ script \in {"setup.py", "file_search_guides.py", "app.py"}
    /\ pc = (IF script = "setup.py" THEN "precheck"
             ELSE IF script = "app.py" THEN "load_config" ELSE "get_client")
    /\ file_exists \in [1..NumFiles -> BOOLEAN]
    /\ api_key \in {NoneV, "", "key"}
    /\ stores \in SUBSET {OldStore, OtherStore}
    /\ list_fails \in BOOLEAN
    /\ client = "none"
    /\ existing_store = ""
    /\ calls = <<>>
    /\ log = <<>>
    /\ file_idx = 0
    /\ operation = NoOperation
    /\ polls = 0
    /\ new_store = ""
    /\ store_name = ""
    /\ config \in (IF script = "app.py" THEN {"", CreatedStore.name} ELSE {""})
    /\ uploaded = {}
    /\ exc = ""

SetupRunning == pc \notin {"none", "done", "crashed", "repl", "stopped", "chat"}

\* setup.py main, lines 128-141: the check of the PDF files before anything
\* else; a missing file ends the run.
PreCheck ==
    /\ script = "setup.py" /\ pc = "precheck"
    /\ LET all_found == \A i \in 1..NumFiles : file_exists[i]
           lines == [i \in 1..NumFiles |->
                        IF file_exists[i] THEN Event("check_found", i)
                        ELSE Event("check_not_found", i)]
       IN  /\ log' = log \o lines \o
                     (IF all_found THEN <<>> ELSE <<Event("some_missing", 0)>>)
           /\ pc' = IF all_found THEN "get_client" ELSE "done"
    /\ UNCHANGED <<script, file_exists, api_key, stores, list_fails, client, existing_store,
                   calls, file_idx, operation, polls, new_store, store_name, config,
                   uploaded, exc>>
    /\ UNCHANGED <<extractVars, chatVars>>

\* app.py main lines 285-288: without a configuration the access prompt is
\* shown and st.stop() ends the script run.
LoadConfig ==
    /\ script = "app.py" /\ pc = "load_config"
    /\ IF config = ""
       THEN pc' = "stopped" /\ log' = Append(log, Event("access_required", 0))
       ELSE pc' = "get_client" /\ log' = log
    /\ UNCHANGED <<script, file_exists, api_key, stores, list_fails, client, existing_store,
                   calls, file_idx, operation, polls, new_store, store_name, config,
                   uploaded, exc>>
    /\ UNCHANGED <<extractVars, chatVars>>

KeyNotNone(key) == key # NoneV

\* if not api_key (setup.py line 36, app.py line 151, file_search_guides.py
\* line 36), negated.
KeyPresent(key) == Truthy(key)

\* get_client: setup.py main catches the ValueError (lines 145-150);
\* file_search_guides.py main does not (line 174); app.py shows an error and
\* calls st.stop() (lines 151-153).
GetClient ==
    /\ pc = "get_client"
    /\ IF KeyPresent(api_key)
       THEN /\ client' = "client"
            /\ pc' = (IF script = "app.py" THEN "app_ready" ELSE "find")
            /\ log' = (IF script = "setup.py"
                       THEN Append(log, Event("client_initialized", 0)) ELSE log)
            /\ exc' = exc
       ELSE /\ client' = client
            /\ IF script = "setup.py"
               THEN /\ pc' = "done"
                    /\ log' = Append(log, Event("no_api_key", 0))
                    /\ exc' = exc
               ELSE IF script = "app.py"
               THEN /\ pc' = "stopped"
                    /\ log' = Append(log, Event("no_api_key", 0))
                    /\ exc' = exc
               ELSE /\ pc' = "crashed"
                    /\ log' = log
                    /\ exc' = "ValueError"
    /\ UNCHANGED <<script, file_exists, api_key, stores, list_fails, existing_store, calls,
                   file_idx, operation, polls, new_store, store_name, config, uploaded>>
    /\ UNCHANGED <<extractVars, chatVars>>

\* app.py main line 292: store_name = config['store_name']; the chat follows.
AppReady ==
    /\ script = "app.py" /\ pc = "app_ready"
    /\ store_name' = config
    /\ pc' = "chat"
    /\ UNCHANGED <<script, file_exists, api_key, stores, list_fails, client, existing_store,
                   calls, log, file_idx, operation, polls, new_store, config, uploaded, exc>>
    /\ UNCHANGED <<extractVars, chatVars>>

\* find_existing_store: the first listed store with the display name, None
\* when there is none or when list() raises.
FoundStore ==
    IF list_fails \/ OldStore \notin stores THEN "" ELSE OldStore.name

\* create_store_and_upload_files up to the decision on an existing store:
\* setup.py asks (lines 57-61), file_search_guides.py reuses it (lines 56-59).
FindExistingStore ==
    /\ pc = "find"
    /\ calls' = Append(calls, Call("list", 0, ""))
    /\ existing_store' = FoundStore
    /\ log' = IF list_fails THEN Append(log, Event("list_error", 0))
              ELSE IF FoundStore # "" THEN Append(log, Event("found_existing", 0))
              ELSE log
    /\ IF FoundStore = "" THEN pc' = "create" /\ store_name' = store_name
       ELSE IF script = "setup.py" THEN pc' = "ask" /\ store_name' = store_name
       ELSE pc' = "repl" /\ store_name' = FoundStore
    /\ UNCHANGED <<script, file_exists, api_key, stores, list_fails, client, file_idx,
                   operation, polls, new_store, config, uploaded, exc>>
    /\ UNCHANGED <<extractVars, chatVars>>

UseExistingOnAnyYes(a) == StripLower(a) \in {"y", "yes"}

\* setup.py line 62: if response == 'y'.
UseExisting(a) == StripLower(a) = "y"

\* setup.py lines 61-65: the answer to "use the existing store?"; the terminal
\* shows what was typed.
AskReuse ==
    /\ script = "setup.py" /\ pc = "ask"
    /\ \E a \in Answers :
          IF UseExisting(a)
          THEN /\ pc' = "save" /\ store_name' = existing_store
               /\ log' = Append(log, Event("answer:" \o a, 0))
          ELSE /\ pc' = "delete" /\ store_name' = store_name
               /\ log' = log \o <<Event("answer:" \o a, 0), Event("deleting", 0)>>
    /\ UNCHANGED <<script, file_exists, api_key, stores, list_fails, client, existing_store,
                   calls, file_idx, operation, polls, new_store, config, uploaded, exc>>
    /\ UNCHANGED <<extractVars, chatVars>>

\* setup.py lines 66-67: delete(name=existing_store.name, config={'force': True}).
DeleteStore ==
    /\ pc = "delete"
    /\ calls' = Append(calls, Call("delete_force", 0, existing_store))
    /\ stores' = {st \in stores : st.name # existing_store}
    /\ log' = Append(log, Event("deleted", 0))
    /\ pc' = "create"
    /\ UNCHANGED <<script, file_exists, api_key, list_fails, client, existing_store,
                   file_idx, operation, polls, new_store, store_name, config, uploaded, exc>>
    /\ UNCHANGED <<extractVars, chatVars>>

\* setup.py lines 70-74, file_search_guides.py lines 62-66.
CreateStore ==
    /\ pc = "create"
    /\ calls' = Append(calls, Call("create", 0, ""))
    /\ stores' = stores \cup {CreatedStore}
    /\ new_store' = CreatedStore.name
    /\ log' = Append(log, Event("created", 0))
    /\ file_idx' = 1
    /\ pc' = "upload"
    /\ UNCHANGED <<script, file_exists, api_key, list_fails, client, existing_store,
                   operation, polls, store_name, config, uploaded, exc>>
    /\ UNCHANGED <<extractVars, chatVars>>

BreakAfterMissingFile(i) == NumFiles + 1

\* setup.py line 83, continue: the loop goes on with the next file.
AfterMissingFile(i) == i + 1

\* One pass of the upload loop up to the upload call.  setup.py tests
\* os.path.exists first (lines 81-83); file_search_guides.py does not, and
\* the upload of a missing path raises (lines 73-77).
UploadFile ==
    /\ pc = "upload" /\ file_idx <= NumFiles
    /\ IF file_exists[file_idx]
       THEN /\ calls' = Append(calls, Call("upload", file_idx, new_store))
            /\ \E d \in BOOLEAN : operation' = [file |-> file_idx, done |-> d]
            /\ polls' = 0
            /\ pc' = "poll"
            /\ UNCHANGED <<log, file_idx, exc>>
       ELSE IF script = "setup.py"
       THEN /\ log' = Append(log, Event("upload_not_found", file_idx))
            /\ file_idx' = AfterMissingFile(file_idx)
            /\ UNCHANGED <<calls, operation, polls, pc, exc>>
       ELSE /\ calls' = Append(calls, Call("upload", file_idx, new_store))
            /\ exc' = "FileNotFoundError"
            /\ pc' = "crashed"
            /\ UNCHANGED <<log, file_idx, operation, polls>>
    /\ UNCHANGED <<script, file_exists, api_key, stores, list_fails, client, existing_store,
                   new_store, store_name, config, uploaded>>
    /\ UNCHANGED <<extractVars, chatVars>>

PollsNever(op) == FALSE

\* while not operation.done (setup.py line 96, file_search_guides.py line 81).
StillIndexing(op) == ~op.done

\* setup.py lines 96-99, file_search_guides.py lines 81-84: the operation is
\* not done, sleep and fetch it again.
PollOperation ==
    /\ pc = "poll" /\ StillIndexing(operation)
    /\ calls' = Append(calls, Call("poll", operation.file, ""))
    /\ polls' = polls + 1
    /\ \E d \in (IF polls + 1 < MaxPolls THEN BOOLEAN ELSE {TRUE}) :
          operation' = [operation EXCEPT !.done = d]
    /\ UNCHANGED <<script, pc, file_exists, api_key, stores, list_fails, client,
                   existing_store, log, file_idx, new_store, store_name, config, uploaded, exc>>
    /\ UNCHANGED <<extractVars, chatVars>>

\* setup.py line 100, file_search_guides.py line 85: the while loop ends.
IndexingDone ==
    /\ pc = "poll" /\ ~StillIndexing(operation)
    /\ log' = Append(log, Event("indexed", operation.file))
    /\ uploaded' = uploaded \cup {operation.file}
    /\ file_idx' = file_idx + 1
    /\ operation' = NoOperation
    /\ polls' = 0
    /\ pc' = "upload"
    /\ UNCHANGED <<script, file_exists, api_key, stores, list_fails, client, existing_store,
                   calls, new_store, store_name, config, exc>>
    /\ UNCHANGED <<extractVars, chatVars>>

\* setup.py line 102, file_search_guides.py lines 87-88.
ReturnStoreName ==
    /\ pc = "upload" /\ file_idx > NumFiles
    /\ store_name' = new_store
    /\ log' = IF script = "setup.py" THEN log ELSE Append(log, Event("all_uploaded", 0))
    /\ pc' = IF script = "setup.py" THEN "save" ELSE "repl"
    /\ UNCHANGED <<script, file_exists, api_key, stores, list_fails, client, existing_store,
                   calls, file_idx, operation, polls, new_store, config, uploaded, exc>>
    /\ UNCHANGED <<extractVars, chatVars>>

\* setup.py main lines 156-164: save_config and the final summary, which
\* prints the store name and how to start the app.
SaveConfig ==
    /\ script = "setup.py" /\ pc = "save"
    /\ config' = store_name
    /\ log' = log \o <<Event("config_saved", 0), Event("setup_complete", 0)>>
    /\ pc' = "done"
    /\ UNCHANGED <<script, file_exists, api_key, stores, list_fails, client, existing_store,
                   calls, file_idx, operation, polls, new_store, store_name, uploaded, exc>>
    /\ UNCHANGED <<extractVars, chatVars>>

\* The file system is not the script's: a file can go away while it runs
\* (between the check of main and the upload loop).
FileVanishes ==
    /\ SetupRunning
    /\ \E i \in 1..NumFiles :
          /\ file_exists[i]
          /\ file_exists' = [file_exists EXCEPT ![i] = FALSE]
    /\ UNCHANGED <<script, pc, api_key, stores, list_fails, client, existing_store, calls,
                   log, file_idx, operation, polls, new_store, store_name, config,
                   uploaded, exc>>
    /\ UNCHANGED <<extractVars, chatVars>>

\* The steps of the script itself, the file system left out.
SetupProgram ==
    \/ PreCheck \/ LoadConfig \/ GetClient \/ AppReady \/ FindExistingStore \/ AskReuse
    \/ DeleteStore \/ CreateStore \/ UploadFile \/ PollOperation \/ IndexingDone
    \/ ReturnStoreName \/ SaveConfig

SetupNext == SetupProgram \/ FileVanishes

\* ------------------------------- app.py main / interactive_mode, question loop
Questions == {"How do I create a new job?", "What are the keyboard shortcuts?"}
QuitWords == {"quit", "exit", "q"}
Message(role, content) == [role |-> role, content |-> content]
AnswerTo(q) == "Answer: " \o q

ChatIdle ==
    /\ ui = "none"
    /\ chat_pc = "none"
    /\ messages = <<>>
    /\ sent = <<>>
    /\ service = <<>>
    /\ shown = <<>>

ChatInit ==
    /\ ui \in {"app", "repl"}
    /\ chat_pc = "idle"
    /\ messages = <<>>
    /\ sent = <<>>
    /\ service = <<>>
    /\ shown = <<>>

CrashAfterQueryError(u) == "crashed"

\* except Exception (app.py line 366, file_search_guides.py line 163): the
\* error is displayed and the script run / the while loop goes on.
AfterQueryError(u) == "idle"

\* app.py main lines 333-364 on a question (typed, or set by an example
\* button and cleared at line 331) whose generate call returns.
AppAnswer ==
    /\ ui = "app" /\ chat_pc = "idle" /\ Len(sent) < MaxQuestions
    /\ \E q \in Questions :
          /\ sent' = Append(sent, q)
          /\ messages' = messages \o <<Message("user", q), Message("assistant", AnswerTo(q))>>
    /\ service' = Append(service, "ok")
    /\ shown' = Append(shown, "answer")
    /\ UNCHANGED <<ui, chat_pc>>
    /\ UNCHANGED <<extractVars, setupVars>>

\* app.py main lines 333-341, 366-369: the generate call (or the code after it
\* inside the try) raises; st.error shows the error and the traceback.
AppError ==
    /\ ui = "app" /\ chat_pc = "idle" /\ Len(sent) < MaxQuestions
    /\ \E q \in Questions :
          /\ sent' = Append(sent, q)
          /\ messages' = Append(messages, Message("user", q))
    /\ service' = Append(service, "fail")
    /\ shown' = Append(shown, "error")
    /\ chat_pc' = AfterQueryError(ui)
    /\ UNCHANGED ui
    /\ UNCHANGED <<extractVars, setupVars>>

\* interactive_mode lines 148-149, 155-157: an empty line or "clear".
ReplSkip ==
    /\ ui = "repl" /\ chat_pc = "idle"
    /\ \E line \in {"", "clear"} : TRUE
    /\ UNCHANGED chatVars
    /\ UNCHANGED <<extractVars, setupVars>>

\* interactive_mode lines 151-153.
ReplQuit ==
    /\ ui = "repl" /\ chat_pc = "idle"
    /\ \E line \in QuitWords : shown' = Append(shown, "goodbye")
    /\ chat_pc' = "ended"
    /\ UNCHANGED <<ui, messages, sent, service>>
    /\ UNCHANGED <<extractVars, setupVars>>

\* interactive_mode lines 159-162: the question is answered.
ReplAnswer ==
    /\ ui = "repl" /\ chat_pc = "idle" /\ Len(sent) < MaxQuestions
    /\ \E q \in Questions : sent' = Append(sent, q)
    /\ service' = Append(service, "ok")
    /\ shown' = Append(shown, "answer")
    /\ UNCHANGED <<ui, chat_pc, messages>>
    /\ UNCHANGED <<extractVars, setupVars>>

\* interactive_mode lines 160-164: the call raises, "Error: ..." is printed.
ReplError ==
    /\ ui = "repl" /\ chat_pc = "idle" /\ Len(sent) < MaxQuestions
    /\ \E q \in Questions : sent' = Append(sent, q)
    /\ service' = Append(service, "fail")
    /\ shown' = Append(shown, "error")
    /\ chat_pc' = AfterQueryError(ui)
    /\ UNCHANGED <<ui, messages>>
    /\ UNCHANGED <<extractVars, setupVars>>

ChatNext == AppAnswer \/ AppError \/ ReplSkip \/ ReplQuit \/ ReplAnswer \/ ReplError

\* ---------------------------------------------------------- specifications
ExtractInit == ExtractIdle /\ SetupIdle /\ ChatIdle
ExtractNext == QueryGuidesReturns \/ ExtractCitations \/ Rendered
SpecExtract == ExtractInit /\ [][ExtractNext]_vars

SetupSpecInit == SetupInit /\ ExtractIdle /\ ChatIdle
SpecSetup == SetupSpecInit /\ [][SetupNext]_vars

\* The script is a sequential program that keeps running: a statement that
\* can execute does (input() returns once the user has answered).
SpecSetupFair == SpecSetup /\ WF_vars(SetupProgram)

ChatSpecInit == ChatInit /\ ExtractIdle /\ SetupIdle
SpecChat == ChatSpecInit /\ [][ChatNext]_vars

\* ------------------------------------------- views of the state for the claims
Extracted == runs > 0
HasCandidate == TruthyList(response.candidates)
HasMetadata == HasCandidate /\ response.candidates.items[1].grounding_metadata.kind = "obj"
InMetadata == response.candidates.items[1].grounding_metadata
InChunks == GroundingChunks(InMetadata).items
InSupports == GroundingSupports(InMetadata).items
InIndices(s) == ChunkIndices(InSupports[s])
InRange(idx) == idx >= 0 /\ idx < Len(InChunks)
InfoAt(idx) == ChunkInfoOf(idx, InChunks[idx + 1])
Output == result.citations
OutputSet == {Output[k] : k \in 1..Len(Output)}

\* The dedup identity as the specification words it: the title and the first
\* 100 characters of source_text, an empty or missing source_text being "".
ClaimKey(c) ==
    <<c.title,
      IF c.source_text \in {NoneT, AbsentT, EmptyT} THEN EmptyT
      ELSE [k \in 1..Min(Len(c.source_text), 100) |-> c.source_text[k]]>>

\* The elements of seq at the positions in P, in order.
RECURSIVE Pick(_, _, _)
Pick(seq, i, P) ==
    IF i > Len(seq) THEN <<>>
    ELSE (IF i \in P THEN <<seq[i]>> ELSE <<>>) \o Pick(seq, i + 1, P)

RECURSIVE Flatten(_)
Flatten(ss) == IF ss = <<>> THEN <<>> ELSE Head(ss) \o Flatten(Tail(ss))

FirstOccurrences(seq) ==
    Pick(seq, 1, {i \in 1..Len(seq) :
                    \A j \in 1..(i - 1) : ClaimKey(seq[j]) # ClaimKey(seq[i])})

\* Branch A: the chunks in chunk order whose title or text is non-empty.
BranchACandidates ==
    LET all == [k \in 1..Len(InChunks) |-> DirectCitation(InfoAt(k - 1), InChunks[k])]
    IN  Pick(all, 1, {k \in 1..Len(InChunks) : Citable(InfoAt(k - 1))})

\* Branch B: supports in input order, their indices in listed order, the
\* indices that are positions of the chunk list only.
BranchBCandidates ==
    Flatten([s \in 1..Len(InSupports) |->
        LET idx == InIndices(s)
            kept == Pick(idx, 1, {k \in 1..Len(idx) : InRange(idx[k])})
        IN  [k \in 1..Len(kept) |-> SupportCitation(InfoAt(kept[k]))]])

BranchA == Len(InChunks) > 0 /\ Len(InSupports) = 0

\* ------------------------------------------------------------------- claims
\* C1: after extract_citations has run, no two citations of the returned list
\* have the same key (title, first 100 characters of source_text), an empty
\* or missing source_text counting as the empty string.
C1_UniqueKeys ==
    Extracted =>
        \A i, j \in 1..Len(Output) :
            i # j => ClaimKey(Output[i]) # ClaimKey(Output[j])

\* C1 witness: two chunks with one title whose texts agree on the first 100
\* characters and differ after them were passed, and one citation came back.
C1_Witness ==
    /\ Extracted /\ HasMetadata
    /\ InChunks = <<ChunkA, ChunkA2>> /\ InSupports = <<>>
    /\ Len(Output) = 1

\* C2: when the support list has at least one entry, every returned citation
\* is the one built from a chunk that some support index references; chunks
\* A, B with one support referencing index 1 yield only B.
C2_BranchExclusive ==
    (Extracted /\ HasMetadata /\ Len(InSupports) >= 1) =>
        /\ \A c \in OutputSet :
              \E s \in 1..Len(InSupports) : \E k \in 1..Len(InIndices(s)) :
                  /\ InRange(InIndices(s)[k])
                  /\ c = SupportCitation(InfoAt(InIndices(s)[k]))
        /\ (InChunks = <<ChunkA, ChunkB>> /\ Len(InSupports) = 1 /\ InIndices(1) = <<1>>)
              => Output = <<[title |-> "B", source_text |-> TextY, uri |-> ""]>>

\* C2 witness: chunks A, B and one support referencing index 1 gave only B.
C2_Witness ==
    /\ Extracted /\ HasMetadata
    /\ InChunks = <<ChunkA, ChunkB>>
    /\ Len(InSupports) = 1 /\ InIndices(1) = <<1>>
    /\ Len(Output) = 1 /\ Output[1].title = "B"

SomeIndexOutOfRange ==
    \E s \in 1..Len(InSupports) : \E k \in 1..Len(InIndices(s)) : ~InRange(InIndices(s)[k])

\* C3: when a support lists an index that is no position of the chunk list
\* (negative or past the end), extract_citations does not raise, no citation
\* comes from that index, and every in-range index of the supports still has
\* its citation (by key) in the output.
C3_IndexRobust ==
    (Extracted /\ HasMetadata /\ Len(InSupports) >= 1 /\ SomeIndexOutOfRange) =>
        /\ result.raised = ""
        /\ \A s \in 1..Len(InSupports) : \A k \in 1..Len(InIndices(s)) :
              InRange(InIndices(s)[k]) =>
                  \E c \in OutputSet :
                      ClaimKey(c) = ClaimKey(SupportCitation(InfoAt(InIndices(s)[k])))
        /\ Len(Output) <=
              Cardinality(UNION {{<<s, k>> : k \in {n \in 1..Len(InIndices(s)) :
                                                           InRange(InIndices(s)[n])}} :
                                 s \in 1..Len(InSupports)})

\* C3 witness: the support <<-1, 1>> over two chunks gave the citation of
\* chunk 1 alone.
C3_Witness ==
    /\ Extracted /\ HasMetadata
    /\ Len(InChunks) = 2
    /\ Len(InSupports) = 1 /\ InIndices(1) = <<-1, 1>>
    /\ result.raised = "" /\ Len(Output) = 1

\* C4: the output is the chosen branch's candidate sequence with every later
\* occurrence of an already seen key removed, first occurrences in their
\* original order.
C4_FirstOccurrenceOrder ==
    (Extracted /\ HasMetadata) =>
        Output = FirstOccurrences(IF BranchA THEN BranchACandidates ELSE BranchBCandidates)

\* C4 witness: supports <<1, 0>> then <<0, 1, 0>> over chunks A, B gave B
\* before A, five candidates reduced to two.
C4_Witness ==
    /\ Extracted /\ HasMetadata
    /\ InChunks = <<ChunkA, ChunkB>>
    /\ Len(InSupports) = 2 /\ InIndices(1) = <<1, 0>> /\ InIndices(2) = <<0, 1, 0>>
    /\ Len(Output) = 2 /\ Output[1].title = "B" /\ Output[2].title = "A"

NoContext(chunk) == ~TruthyCtx(ResolveContext(chunk))
ContextWithoutTitle(chunk) ==
    /\ TruthyCtx(ResolveContext(chunk))
    /\ ResolveContext(chunk).title = Absent
    /\ ResolveContext(chunk).displayName = Absent
LacksTitleFields(chunk) == NoContext(chunk) \/ ContextWithoutTitle(chunk)
AllChunks(P(_)) == \A k \in 1..Len(InChunks) : P(InChunks[k])

IntroOnly == HasMetadata /\ InChunks = <<ChunkIntro>> /\ InSupports = <<>>

NoGrounding == ~HasCandidate \/ ~HasMetadata

\* C7: for a response with zero candidates, or whose first candidate has no
\* grounding metadata, extract_citations returns an empty list and a
\* diagnostics map with an explanatory note under "error", and does not raise.
C7_EmptyWithNote ==
    (Extracted /\ NoGrounding) =>
        /\ result.raised = ""
        /\ Output = <<>>
        /\ "error" \in DOMAIN result.debug_info
        /\ result.debug_info.error \in
              {"No candidates in response", "No grounding_metadata in candidate"}

\* C7 witness: a candidate whose grounding_metadata is None was extracted and
\* the note names the missing metadata.
C7_Witness ==
    /\ Extracted /\ HasCandidate
    /\ response.candidates.items[1].grounding_metadata.kind = "none"
    /\ result.debug_info.error = "No grounding_metadata in candidate"

SetupFinished == script = "setup.py" /\ pc = "done"
SomeFileMissing == \E i \in 1..NumFiles : ~file_exists[i]
ReportedMissing(i) == Logged(Event("check_not_found", i)) \/ Logged(Event("upload_not_found", i))
AbortedAtCheck == \E i \in 1..NumFiles : Logged(Event("check_not_found", i))

\* C9 as stated: when setup.py has run to its end with a credential, a PDF file
\* is missing and no existing store was reused, the missing file was reported
\* and every file that exists was uploaded and indexed.
C9_Original ==
    (SetupFinished /\ Truthy(api_key) /\ SomeFileMissing /\ store_name # OldStore.name) =>
        /\ \A i \in 1..NumFiles : ~file_exists[i] => ReportedMissing(i)
        /\ \A i \in 1..NumFiles : file_exists[i] => i \in uploaded

\* C9 amended: a PDF file missing at the initial check of setup.py is reported
\* and the run stops there, with no client, no remote call, no upload and no
\* configuration file; a file found missing only in the upload loop is
\* reported and skipped, every other file is still uploaded and indexed, the
\* configuration is saved, and the final summary names no failed file.
C9_MissingFile ==
    SetupFinished =>
        /\ AbortedAtCheck =>
              /\ Logged(Event("some_missing", 0))
              /\ client = "none" /\ calls = <<>> /\ uploaded = {} /\ config = ""
        /\ Called("create") =>
              /\ \A i \in 1..NumFiles :
                    /\ (i \in uploaded) # Logged(Event("upload_not_found", i))
                    /\ (i \in uploaded) =
                          (\E k \in 1..Len(calls) : calls[k] = Call("upload", i, new_store))
              /\ config = new_store
              /\ log[Len(log)] = Event("setup_complete", 0)

\* C9 witness: setup.py finished after skipping file 1 in the upload loop and
\* uploading file 2.
C9_Witness ==
    /\ SetupFinished
    /\ Logged(Event("upload_not_found", 1))
    /\ uploaded = {2}
    /\ config = CreatedStore.name

Handled == SelectSeq(shown, LAMBDA x : x # "goodbye")

\* C10: each question is sent to the service whatever happened to the earlier
\* ones; a failed call is shown as an error and an answered one as an answer;
\* a failure never ends the session, which ends only by the REPL's quit.
C10_FailureSurvived ==
    /\ chat_pc \in {"none", "idle", "ended"}
    /\ chat_pc = "ended" =>
          ui = "repl" /\ Len(shown) > 0 /\ shown[Len(shown)] = "goodbye"
    /\ Len(sent) = Len(service) /\ Len(Handled) = Len(service)
    /\ \A k \in 1..Len(service) :
          Handled[k] = (IF service[k] = "ok" THEN "answer" ELSE "error")
    /\ ui = "app" =>
          Len(SelectSeq(messages, LAMBDA m : m.role = "user")) = Len(sent)

\* C10 witness: a question failed, the session stayed idle, and the next
\* question was sent and answered.
C10_Witness ==
    /\ chat_pc = "idle"
    /\ Len(service) = 2 /\ service[1] = "fail" /\ service[2] = "ok"
    /\ shown = <<"error", "answer">>

KeyMissing == api_key \in {NoneV, ""}
SetupEnded == pc \in {"done", "crashed", "stopped", "repl", "chat"}

\* C11: with GEMINI_API_KEY unset or empty, no client is ever constructed and
\* no remote-service call is issued, the script never gets to the statements
\* that issue one (store handling, uploads, polling, the question loop); in
\* setup.py no configuration file is written and the run ends after a message.
C11_NoCredential ==
    (script # "none" /\ KeyMissing) =>
        /\ client = "none"
        /\ calls = <<>>
        /\ pc \in {"precheck", "load_config", "get_client", "done", "stopped", "crashed"}
        /\ stores \subseteq {OldStore, OtherStore} /\ uploaded = {} /\ store_name = ""
        /\ script = "setup.py" =>
              /\ config = ""
              /\ pc = "done" =>
                    \/ log[Len(log)] = Event("no_api_key", 0)
                    \/ log[Len(log)] = Event("some_missing", 0)
        /\ (script = "app.py" /\ pc = "stopped") =>
              log[Len(log)] \in {Event("no_api_key", 0), Event("access_required", 0)}
        /\ pc = "crashed" => exc = "ValueError"

\* C11 witness: setup.py ended on the missing-key message with an empty
\* GEMINI_API_KEY, every PDF file present.
C11_Witness ==
    /\ script = "setup.py" /\ pc = "done" /\ api_key = ""
    /\ \A i \in 1..NumFiles : file_exists[i]
    /\ Logged(Event("no_api_key", 0))

Waiting == script = "setup.py" /\ pc = "poll" /\ ~operation.done
PollCalls(i) == Cardinality({k \in 1..Len(calls) : calls[k] = Call("poll", i, "")})

\* C12: in setup.py, while the operation of a submitted upload reports not
\* done, the only remote call is a poll of that operation: no next upload, no
\* returned store name, no configuration file; every file whose upload was
\* submitted is indexed or is the one being polled; and, every operation
\* reporting done after finitely many polls, setup.py runs to its end.
C12_IndexingWait ==
    /\ [][Waiting =>
            /\ pc' = "poll" /\ operation'.file = operation.file
            /\ file_idx' = file_idx /\ uploaded' = uploaded
            /\ store_name' = store_name /\ config' = config
            /\ \/ calls' = calls
               \/ calls' = Append(calls, Call("poll", operation.file, ""))]_vars
    /\ [](script = "setup.py" =>
            \A k \in 1..Len(calls) :
                calls[k].op = "upload" =>
                    \/ calls[k].file \in uploaded
                    \/ pc = "poll" /\ operation.file = calls[k].file)
    /\ (script = "setup.py") ~> (pc = "done")

\* C12 witness: setup.py finished after polling the operation of file 1 twice.
C12_Witness ==
    /\ script = "setup.py" /\ pc = "done"
    /\ PollCalls(1) = 2
    /\ uploaded = 1..NumFiles
    /\ config = CreatedStore.name

\* The answers the claim counts as 'y': what was typed is y, in either case
\* and with or without blanks around it.
AnsweredYes == Logged(Event("answer:y", 0)) \/ Logged(Event("answer: Y ", 0))
AnsweredOther == \E a \in {"n", "yes", ""} : Logged(Event("answer:" \o a, 0))
DeleteOld == Call("delete_force", 0, OldStore.name)

\* C13: in setup.py, once the user has answered 'y' about the existing store,
\* no delete, create or upload call is issued and the name returned and saved
\* is the existing store's; after any other answer the existing store is
\* deleted (forced) before a store is created, and the name returned and
\* saved is the new store's, never the deleted one's.
C13_ReuseOrRecreate ==
    (script = "setup.py" /\ (AnsweredYes \/ AnsweredOther)) =>
        /\ existing_store = OldStore.name /\ Logged(Event("found_existing", 0))
        /\ AnsweredYes =>
              /\ ~AnsweredOther
              /\ ~Called("delete_force") /\ ~Called("create") /\ ~Called("upload")
              /\ calls = <<Call("list", 0, "")>>
              /\ store_name = OldStore.name
              /\ config \in {"", OldStore.name}
              /\ pc = "done" => config = OldStore.name
        /\ AnsweredOther =>
              /\ ~AnsweredYes
              /\ pc \in {"delete"} \/ (Len(calls) >= 2 /\ calls[2] = DeleteOld)
              /\ \A k \in 1..Len(calls) :
                    calls[k].op = "create" => \E j \in 1..(k - 1) : calls[j] = DeleteOld
              /\ Called("create") => OldStore \notin stores
              /\ store_name \in {"", CreatedStore.name}
              /\ config \in {"", CreatedStore.name}
              /\ store_name # OldStore.name /\ config # OldStore.name
              /\ pc = "done" => (store_name = CreatedStore.name /\ config = CreatedStore.name)

\* C13 witness: setup.py finished after the answer "n": the old store was
\* deleted, the new store's name was saved.
C13_Witness ==
    /\ script = "setup.py" /\ pc = "done"
    /\ Logged(Event("answer:n", 0))
    /\ Called("delete_force") /\ Called("create")
    /\ config = CreatedStore.name
====
